---- MODULE Spec2Model ----
(***************************************************************************)
(* A-Lister: the MCP tool handlers of src/server.ts over the four tables   *)
(* of db/schema.sql (users, lists, items, bookmarks), the queries of       *)
(* src/db.ts and the credential check of src/auth.ts.                      *)
(*                                                                         *)
(* A table is a sequence of rows in insertion order, which is the order of *)
(* created_at; a fresh uuid is modelled by the row's position, since no    *)
(* statement deletes a row.  A nullable value that is absent is NULL, an   *)
(* optional argument that is not supplied is UNDEF, and an id that names   *)
(* nothing is NoId.  A handle is a sequence of one-character strings.      *)
(***************************************************************************)
EXTENDS Integers, Sequences, FiniteSets, TLC

VARIABLES env, users, lists, items, bookmarks, lastParams, sess

vars == <<env, users, lists, items, bookmarks, lastParams, sess>>

(* ------------------------------ bounds -------------------------------- *)

MaxLists == 2
MaxItems == 2
RandDen == 10000
NumSessions == 2

(* --------------------------- value domains ---------------------------- *)

NULL == "<null>"
UNDEF == "<undefined>"
NoId == 0
BadUuid == -1
\* NULL and UNDEF for the values that are sequences of characters.
NullText == <<NULL>>
UndefText == <<UNDEF>>

SuffixSpan == 9000
SuffixBase == 1000
MaxTitleLen == 160
MaxListTitleLen == 120
MaxNoteLen == 280
MaxTypeLen == 40
MaxQueryLen == 120

AuthProviderIds == {"sub1", "sub2"}
DigitChars == <<"0", "1", "2", "3", "4", "5", "6", "7", "8", "9">>

\* Math.random() yields r in [0, 1); a sample k stands for r = k / RandDen.
RandSamples == {0, RandDen - 1}

Reverse(s) == [i \in 1..Len(s) |-> s[Len(s) + 1 - i]]

\* `${n}` of a non-negative integer: its decimal digits, most significant first.
RECURSIVE ToDecimal(_)
ToDecimal(n) ==
  IF n < 10 THEN <<DigitChars[n + 1]>>
  ELSE ToDecimal(n \div 10) \o <<DigitChars[(n % 10) + 1]>>

(* ------------------------- users (src/db.ts) -------------------------- *)

NoUser ==
  [id |-> NoId, auth_provider_id |-> NULL, handle |-> <<>>,
   display_name |-> NullText, avatar_url |-> NULL]

\* schema.sql: users.id primary key, auth_provider_id unique, handle unique.
UsersUnique(U) ==
  \A i, j \in 1..Len(U) :
    i # j => /\ U[i].id # U[j].id
             /\ U[i].auth_provider_id # U[j].auth_provider_id
             /\ U[i].handle # U[j].handle

getUserByAuthProviderId(U, authProviderId) ==
  LET rows == SelectSeq(U, LAMBDA u : u.auth_provider_id = authProviderId)
  IN IF Len(rows) = 0 THEN NoUser ELSE rows[1]

getUserById(U, userId) ==
  LET rows == SelectSeq(U, LAMBDA u : u.id = userId)
  IN IF Len(rows) = 0 THEN NoUser ELSE rows[1]

\* Mutation: Math.floor(Math.random() * 10000), which has short results.
randomSuffix_NoBase(k) == (k * (SuffixSpan + SuffixBase)) \div RandDen

\* Math.floor(Math.random() * 9000 + 1000) for the sample k.
randomSuffix(k) == ((k * SuffixSpan) \div RandDen) + SuffixBase

\* Whether resolveHandle finds the candidate taken by another identity.
handleTaken(U, authProviderId, base) ==
  LET existing == SelectSeq(U, LAMBDA u : u.handle = base)
  IN ~(Len(existing) = 0 \/ existing[1].auth_provider_id = authProviderId)

resolveHandle(U, authProviderId, base, k) ==
  IF ~handleTaken(U, authProviderId, base) THEN base
  ELSE base \o <<"_">> \o ToDecimal(randomSuffix(k))

\* The columns ensureUser puts in its update statement.
userUpdates(existing, params, safeHandle) ==
  (IF params.displayName # UndefText /\ params.displayName # existing.display_name
     THEN {"display_name"} ELSE {})
  \cup (IF params.avatarUrl # UNDEF /\ params.avatarUrl # existing.avatar_url
          THEN {"avatar_url"} ELSE {})
  \cup (IF safeHandle # existing.handle THEN {"handle"} ELSE {})

\* update users set <updates> where id = existing.id; the statement fails as
\* a whole when it would break a unique constraint.
updateUser(U, userId, updates, params, safeHandle) ==
  LET set(u) ==
        [u EXCEPT
           !.display_name = IF "display_name" \in updates THEN params.displayName ELSE @,
           !.avatar_url = IF "avatar_url" \in updates THEN params.avatarUrl ELSE @,
           !.handle = IF "handle" \in updates THEN safeHandle ELSE @]
      U2 == [i \in 1..Len(U) |-> IF U[i].id = userId THEN set(U[i]) ELSE U[i]]
  IN IF UsersUnique(U2) THEN [ok |-> TRUE, users |-> U2]
     ELSE [ok |-> FALSE, users |-> U]

\* Mutation: a users table without its unique constraints.
insertUser_Unconstrained(U, id, params, safeHandle) ==
  [ok |-> TRUE,
   users |-> Append(U, [id |-> id, auth_provider_id |-> params.authProviderId,
                        handle |-> safeHandle,
                        display_name |-> IF params.displayName = UndefText
                                           THEN NullText ELSE params.displayName,
                        avatar_url |-> IF params.avatarUrl = UNDEF THEN NULL
                                       ELSE params.avatarUrl])]

\* insert into users (...) values (...); the statement fails when it would
\* break a unique constraint.
insertUser(U, id, params, safeHandle) ==
  LET row == [id |-> id, auth_provider_id |-> params.authProviderId,
              handle |-> safeHandle,
              display_name |-> IF params.displayName = UndefText THEN NullText
                               ELSE params.displayName,
              avatar_url |-> IF params.avatarUrl = UNDEF THEN NULL
                             ELSE params.avatarUrl]
      U2 == Append(U, row)
  IN IF UsersUnique(U2) THEN [ok |-> TRUE, users |-> U2]
     ELSE [ok |-> FALSE, users |-> U]

ErrDuplicateKey == "duplicate key value violates unique constraint"

\* ensureUser with no other statement running between its own.
ensureUser(U, params, k) ==
  LET safeHandle == resolveHandle(U, params.authProviderId, params.handle, k)
      existing == getUserByAuthProviderId(U, params.authProviderId)
  IN IF existing.id # NoId
       THEN LET updates == userUpdates(existing, params, safeHandle)
                upd == IF updates = {} THEN [ok |-> TRUE, users |-> U]
                       ELSE updateUser(U, existing.id, updates, params, safeHandle)
            IN IF upd.ok
                 THEN [ok |-> TRUE, users |-> upd.users, error |-> "",
                       user |-> getUserByAuthProviderId(upd.users, params.authProviderId)]
                 ELSE [ok |-> FALSE, users |-> U, error |-> ErrDuplicateKey,
                       user |-> NoUser]
       ELSE LET id == Len(U) + 1
                ins == insertUser(U, id, params, safeHandle)
            IN IF ins.ok
                 THEN [ok |-> TRUE, users |-> ins.users, error |-> "",
                       user |-> getUserById(ins.users, id)]
                 ELSE [ok |-> FALSE, users |-> U, error |-> ErrDuplicateKey,
                       user |-> NoUser]

(* ------------------ lists, items, bookmarks (src/db.ts) --------------- *)

NoList == [id |-> NoId, owner_id |-> NoId, title |-> "", type |-> "", visibility |-> ""]

getListById(L, listId) ==
  LET rows == SelectSeq(L, LAMBDA l : l.id = listId)
  IN IF Len(rows) = 0 THEN NoList ELSE rows[1]

createList(L, ownerId, title, type) ==
  LET id == Len(L) + 1
  IN [id |-> id,
      lists |-> Append(L, [id |-> id, owner_id |-> ownerId, title |-> title,
                           type |-> type, visibility |-> "public"])]

addItem(I, listId, title, note, url) ==
  LET id == Len(I) + 1
  IN [id |-> id,
      items |-> Append(I, [id |-> id, list_id |-> listId, title |-> title,
                           note |-> IF note = UNDEF THEN NULL ELSE note,
                           url |-> IF url = UNDEF THEN NULL ELSE url,
                           status |-> "active", order_index |-> 0])]

\* Mutation: the update is scoped by the item id alone.
updateItem_AnyList(I, itemId, listId, title, note, url) ==
  IF title = UNDEF /\ note = UNDEF /\ url = UNDEF THEN I
  ELSE [n \in 1..Len(I) |->
          IF I[n].id = itemId
            THEN [I[n] EXCEPT !.title = IF title # UNDEF THEN title ELSE @,
                              !.note = IF note # UNDEF THEN note ELSE @,
                              !.url = IF url # UNDEF THEN url ELSE @]
            ELSE I[n]]

updateItem(I, itemId, listId, title, note, url) ==
  IF title = UNDEF /\ note = UNDEF /\ url = UNDEF THEN I
  ELSE [n \in 1..Len(I) |->
          IF I[n].id = itemId /\ I[n].list_id = listId
            THEN [I[n] EXCEPT !.title = IF title # UNDEF THEN title ELSE @,
                              !.note = IF note # UNDEF THEN note ELSE @,
                              !.url = IF url # UNDEF THEN url ELSE @]
            ELSE I[n]]

\* Mutation: the statement flips the status of the row it matches.
setItemStatus_Toggle(I, itemId, listId, status) ==
  [n \in 1..Len(I) |->
     IF I[n].id = itemId /\ I[n].list_id = listId
       THEN [I[n] EXCEPT !.status = IF @ = "active" THEN "done" ELSE "active"]
       ELSE I[n]]

setItemStatus(I, itemId, listId, status) ==
  [n \in 1..Len(I) |->
     IF I[n].id = itemId /\ I[n].list_id = listId
       THEN [I[n] EXCEPT !.status = status]
       ELSE I[n]]

\* order by created_at desc: newest row first.
getItemsByList(I, listId, status) ==
  Reverse(SelectSeq(I, LAMBDA i : i.list_id = listId /\ i.status = status))

countItems(I, listId, status) ==
  Len(SelectSeq(I, LAMBDA i : i.list_id = listId /\ i.status = status))

\* One row of the summary queries: the list joined with its owner and the
\* counts of its items by status.
listSummary(U, I, l) ==
  LET u == getUserById(U, l.owner_id)
  IN [id |-> l.id, owner_id |-> l.owner_id, title |-> l.title, type |-> l.type,
      visibility |-> l.visibility,
      active_count |-> countItems(I, l.id, "active"),
      done_count |-> countItems(I, l.id, "done"),
      owner_handle |-> u.handle, owner_display_name |-> u.display_name]

\* Mutation: the summaries in creation order, oldest first.
getListsByOwner_Ascending(U, L, I, ownerId) ==
  LET rows == SelectSeq(L, LAMBDA l : l.owner_id = ownerId
                                       /\ getUserById(U, l.owner_id).id # NoId)
  IN [n \in 1..Len(rows) |-> listSummary(U, I, rows[n])]

\* Mutation: the query without "where l.owner_id = $1".
getListsByOwner_AllOwners(U, L, I, ownerId) ==
  Reverse([n \in 1..Len(L) |-> listSummary(U, I, L[n])])

\* ... where l.owner_id = $1 ... order by l.created_at desc
getListsByOwner(U, L, I, ownerId) ==
  LET rows == SelectSeq(L, LAMBDA l : l.owner_id = ownerId
                                       /\ getUserById(U, l.owner_id).id # NoId)
  IN Reverse([n \in 1..Len(rows) |-> listSummary(U, I, rows[n])])

\* Mutation: "join items" in place of "left join items", which drops the
\* lists that have no item.
getListSummaryById_InnerJoin(U, L, I, listId) ==
  LET rows == SelectSeq(L, LAMBDA l : l.id = listId
                                       /\ getUserById(U, l.owner_id).id # NoId
                                       /\ \E n \in 1..Len(I) : I[n].list_id = l.id)
  IN [n \in 1..Len(rows) |-> listSummary(U, I, rows[n])]

\* rows[0] ?? null, as a sequence of at most one summary.
getListSummaryById(U, L, I, listId) ==
  LET rows == SelectSeq(L, LAMBDA l : l.id = listId
                                       /\ getUserById(U, l.owner_id).id # NoId)
  IN [n \in 1..Len(rows) |-> listSummary(U, I, rows[n])]

\* Mutation: an upsert, one bookmarks row for a user and a source item.
createBookmark_Upsert(B, userId, sourceItemId, sourceListId, sourceUserId, createdItemId) ==
  IF \E n \in 1..Len(B) : B[n].user_id = userId /\ B[n].source_item_id = sourceItemId
    THEN [n \in 1..Len(B) |->
            IF B[n].user_id = userId /\ B[n].source_item_id = sourceItemId
              THEN [B[n] EXCEPT !.created_item_id = createdItemId]
              ELSE B[n]]
    ELSE Append(B, [id |-> Len(B) + 1, user_id |-> userId,
                    source_item_id |-> sourceItemId, source_list_id |-> sourceListId,
                    source_user_id |-> sourceUserId, created_item_id |-> createdItemId])

createBookmark(B, userId, sourceItemId, sourceListId, sourceUserId, createdItemId) ==
  Append(B, [id |-> Len(B) + 1, user_id |-> userId,
             source_item_id |-> sourceItemId, source_list_id |-> sourceListId,
             source_user_id |-> sourceUserId, created_item_id |-> createdItemId])

\* The item joined with its list and the list's owner; at most one row.
findSourceItem(U, L, I, sourceItemId) ==
  LET rows == SelectSeq(I, LAMBDA i :
                  /\ i.id = sourceItemId
                  /\ getListById(L, i.list_id).id # NoId
                  /\ getUserById(U, getListById(L, i.list_id).owner_id).id # NoId)
  IN [n \in 1..Len(rows) |->
        LET l == getListById(L, rows[n].list_id)
        IN [id |-> rows[n].id, title |-> rows[n].title, note |-> rows[n].note,
            url |-> rows[n].url, list_id |-> rows[n].list_id,
            list_title |-> l.title, list_type |-> l.type, owner_id |-> l.owner_id,
            owner_handle |-> getUserById(U, l.owner_id).handle]]

\* Mutation: order by created_at asc, the oldest matching list.
newestListOfType_Oldest(rows) == rows[1].id

\* select ... order by created_at desc limit 1: the newest list of the type.
newestListOfType(rows) == rows[Len(rows)].id

getOrCreateListByType(L, ownerId, type, fallbackTitle) ==
  LET rows == SelectSeq(L, LAMBDA l : l.owner_id = ownerId /\ l.type = type)
  IN IF Len(rows) > 0 THEN [id |-> newestListOfType(rows), lists |-> L]
     ELSE createList(L, ownerId, fallbackTitle, type)

(* ----------------- searches over users (src/db.ts) -------------------- *)

SearchLimit == 20

LowerLetters ==
  <<"a", "b", "c", "d", "e", "f", "g", "h", "i", "j", "k", "l", "m",
    "n", "o", "p", "q", "r", "s", "t", "u", "v", "w", "x", "y", "z">>
UpperLetters ==
  <<"A", "B", "C", "D", "E", "F", "G", "H", "I", "J", "K", "L", "M",
    "N", "O", "P", "Q", "R", "S", "T", "U", "V", "W", "X", "Y", "Z">>

LowerChar(c) ==
  IF \E n \in 1..Len(UpperLetters) : UpperLetters[n] = c
    THEN LowerLetters[CHOOSE n \in 1..Len(UpperLetters) : UpperLetters[n] = c]
    ELSE c

\* toLowerCase() and SQL lower() of a text.
Lower(t) == [n \in 1..Len(t) |-> LowerChar(t[n])]

\* SQL "s like p": % matches any run of characters, _ any one character.
RECURSIVE Like(_, _)
Like(t, p) ==
  IF p = <<>> THEN t = <<>>
  ELSE IF Head(p) = "%"
    THEN Like(t, Tail(p)) \/ (t # <<>> /\ Like(Tail(t), p))
    ELSE t # <<>> /\ (Head(p) = "_" \/ Head(p) = Head(t)) /\ Like(Tail(t), Tail(p))

FirstN(rows, n) == IF Len(rows) <= n THEN rows ELSE SubSeq(rows, 1, n)

searchUsersByQuery(U, queryText) ==
  LET q == <<"%">> \o Lower(queryText) \o <<"%">>
      rows == SelectSeq(U, LAMBDA u :
                \/ Like(Lower(u.handle), q)
                \/ (u.display_name # NullText /\ Like(Lower(u.display_name), q)))
  IN FirstN(Reverse(rows), SearchLimit)

(* --------------------- view assembly (src/server.ts) ------------------ *)

ErrNotOwner == "You can only modify your own lists."
ErrViewerNotFound == "Viewer not found."
ErrListNotFound == "List not found."
ErrProfileNotFound == "Profile user not found."
ErrSourceNotFound == "Source item not found."
ErrValidation == "Invalid arguments for tool"

publicUser(u) ==
  [id |-> u.id, handle |-> u.handle, displayName |-> u.display_name,
   avatarUrl |-> u.avatar_url]

NoView ==
  [viewer |-> <<>>, mode |-> "", lists |-> <<>>, selectedList |-> <<>>,
   itemsActive |-> <<>>, itemsDone |-> <<>>, profileUser |-> <<>>,
   profileLists |-> <<>>, searchResults |-> <<>>]

\* A nullable field of the view is a sequence of at most one value; null is <<>>.
Thrown(message) == [ok |-> FALSE, error |-> message, view |-> NoView]
Returned(view) == [ok |-> TRUE, error |-> "", view |-> view]

buildListView(U, L, I, viewerId, listIdArg) ==
  LET viewerRow == getUserById(U, viewerId)
      mine == getListsByOwner(U, L, I, viewerId)
      listId == IF listIdArg = NoId /\ Len(mine) > 0 THEN mine[1].id ELSE listIdArg
      selected == getListSummaryById(U, L, I, listId)
      itemsActive == getItemsByList(I, listId, "active")
      itemsDone == getItemsByList(I, listId, "done")
      base == [viewer |-> <<publicUser(viewerRow)>>, mode |-> "mine", lists |-> mine,
               selectedList |-> <<>>, itemsActive |-> <<>>, itemsDone |-> <<>>,
               profileUser |-> <<>>, profileLists |-> <<>>, searchResults |-> <<>>]
  IN IF viewerRow.id = NoId THEN Thrown(ErrViewerNotFound)
     ELSE IF listId = NoId THEN Returned(base)
     ELSE IF Len(selected) = 0 THEN Thrown(ErrListNotFound)
     ELSE IF selected[1].owner_id # viewerId
       THEN LET profileRecord == getUserById(U, selected[1].owner_id)
                profileUser ==
                  IF profileRecord.id # NoId THEN publicUser(profileRecord)
                  ELSE [id |-> selected[1].owner_id, handle |-> selected[1].owner_handle,
                        displayName |-> selected[1].owner_display_name,
                        avatarUrl |-> NULL]
            IN Returned([base EXCEPT
                 !.mode = "profile", !.selectedList = selected,
                 !.itemsActive = itemsActive, !.itemsDone = itemsDone,
                 !.profileUser = <<profileUser>>,
                 !.profileLists = <<getListsByOwner(U, L, I, selected[1].owner_id)>>])
       ELSE Returned([base EXCEPT
              !.selectedList = selected, !.itemsActive = itemsActive,
              !.itemsDone = itemsDone])

buildProfileView(U, L, I, viewerId, profileUserId) ==
  LET viewerRow == getUserById(U, viewerId)
      mine == getListsByOwner(U, L, I, viewerId)
      profileRecord == getUserById(U, profileUserId)
      profileLists == getListsByOwner(U, L, I, profileUserId)
      listId == IF Len(profileLists) > 0 THEN profileLists[1].id ELSE NoId
      selected == getListSummaryById(U, L, I, listId)
      base == [viewer |-> <<publicUser(viewerRow)>>, mode |-> "profile", lists |-> mine,
               selectedList |-> <<>>, itemsActive |-> <<>>, itemsDone |-> <<>>,
               profileUser |-> <<publicUser(profileRecord)>>,
               profileLists |-> <<profileLists>>, searchResults |-> <<>>]
  IN IF viewerRow.id = NoId THEN Thrown(ErrViewerNotFound)
     ELSE IF profileRecord.id = NoId THEN Thrown(ErrProfileNotFound)
     ELSE IF listId = NoId THEN Returned(base)
     ELSE IF Len(selected) = 0 THEN Thrown(ErrListNotFound)
     ELSE LET own == selected[1].owner_id = viewerId
          IN Returned([base EXCEPT
               !.mode = IF own THEN "mine" ELSE "profile",
               !.selectedList = selected,
               !.itemsActive = getItemsByList(I, listId, "active"),
               !.itemsDone = getItemsByList(I, listId, "done"),
               !.profileUser = IF own THEN <<>> ELSE @,
               !.profileLists = IF own THEN <<>> ELSE @])

buildSearchView(U, L, I, viewerId, queryText) ==
  LET viewerRow == getUserById(U, viewerId)
      results == IF queryText # <<>> THEN searchUsersByQuery(U, queryText) ELSE <<>>
  IN IF viewerRow.id = NoId THEN Thrown(ErrViewerNotFound)
     ELSE Returned(
       [viewer |-> <<publicUser(viewerRow)>>, mode |-> "search",
        lists |-> getListsByOwner(U, L, I, viewerId),
        selectedList |-> <<>>, itemsActive |-> <<>>, itemsDone |-> <<>>,
        profileUser |-> <<>>, profileLists |-> <<>>,
        searchResults |-> <<[n \in 1..Len(results) |-> publicUser(results[n])]>>])

(* ---------------------- credentials (src/auth.ts) --------------------- *)

\* The characters of [a-z0-9_].
SlugChars ==
  {LowerLetters[n] : n \in 1..Len(LowerLetters)}
  \cup {DigitChars[n] : n \in 1..Len(DigitChars)} \cup {"_"}

RECURSIVE collapseUnderscores(_)
collapseUnderscores(t) ==
  IF Len(t) < 2 THEN t
  ELSE IF t[1] = "_" /\ t[2] = "_" THEN collapseUnderscores(Tail(t))
  ELSE <<t[1]>> \o collapseUnderscores(Tail(t))

RECURSIVE trimLeading(_)
trimLeading(t) == IF t # <<>> /\ Head(t) = "_" THEN trimLeading(Tail(t)) ELSE t

trimUnderscores(t) == Reverse(trimLeading(Reverse(trimLeading(t))))

slugifyHandle(value) ==
  LET base == trimUnderscores(collapseUnderscores(
                SelectSeq(Lower(value), LAMBDA c : c \in SlugChars)))
  IN IF base = <<>> THEN <<"u", "s", "e", "r">> ELSE base

\* raw.split("@")[0]
RECURSIVE beforeAt(_)
beforeAt(t) ==
  IF t = <<>> \/ Head(t) = "@" THEN <<>> ELSE <<Head(t)>> \o beforeAt(Tail(t))

\* A claim of the token that is missing or empty is falsy.
truthy(t) == t # UndefText /\ t # <<>>

pickHandle(payload) ==
  LET raw == IF truthy(payload.preferred_username) THEN payload.preferred_username
             ELSE IF truthy(payload.nickname) THEN payload.nickname
             ELSE IF truthy(payload.email) THEN payload.email
             ELSE IF truthy(payload.name) THEN payload.name
             ELSE <<"u", "s", "e", "r">>
  IN slugifyHandle(beforeAt(raw))

NoContext ==
  [authProviderId |-> NULL, handle |-> <<>>, displayName |-> UndefText,
   avatarUrl |-> UNDEF]

AuthFailure(message, status) ==
  [ok |-> FALSE, authError |-> TRUE, status |-> status, message |-> message,
   context |-> NoContext]

\* jwtVerify rejects with an error of the jose library, which is no AuthError.
VerifyFailure ==
  [ok |-> FALSE, authError |-> FALSE, status |-> 0,
   message |-> "signature verification failed", context |-> NoContext]

AuthSuccess(context) ==
  [ok |-> TRUE, authError |-> FALSE, status |-> 0, message |-> "", context |-> context]

\* The handle of dev mode when the header is absent and DEV_USER_HANDLE unset.
DefaultDevHandle == <<"a", "l", "i", "s", "t", "e", "r">>

RECURSIVE Flatten(_)
\* The string of a sequence of characters.
Flatten(chars) == IF chars = <<>> THEN "" ELSE chars[1] \o Flatten(Tail(chars))

\* e is the environment: AUTH_MODE and whether AUTH_JWKS_URL is set; the
\* variables DEV_USER_HANDLE and DEV_USER_ID are unset.  req is
\* the request: the x-user-id and x-user-handle headers, the kind of its
\* authorization header, whether its token verifies and the token's payload.
getAuthContext(e, req) ==
  IF e.AUTH_MODE # "oauth"
    THEN LET handle == IF req.userHandle # <<>> THEN req.userHandle
                       ELSE DefaultDevHandle
             authProviderId == IF req.userId # NULL /\ req.userId # ""
                                 THEN req.userId
                               ELSE "dev-" \o Flatten(handle)
         IN AuthSuccess([authProviderId |-> authProviderId,
                         handle |-> slugifyHandle(handle),
                         displayName |-> handle, avatarUrl |-> UNDEF])
  ELSE IF req.authorization # "bearer" THEN AuthFailure("Missing bearer token", 401)
  ELSE IF ~e.AUTH_JWKS_URL THEN AuthFailure("AUTH_JWKS_URL not configured", 500)
  ELSE IF ~req.verifies THEN VerifyFailure
  ELSE IF req.payload.sub = NULL THEN AuthFailure("Token missing subject", 401)
  ELSE AuthSuccess(
         [authProviderId |-> req.payload.sub, handle |-> pickHandle(req.payload),
          displayName |-> IF truthy(req.payload.name) THEN req.payload.name
                          ELSE NullText,
          avatarUrl |-> IF req.payload.picture # UNDEF /\ req.payload.picture # ""
                          THEN req.payload.picture ELSE NULL])

\* The catch of the request handler: the status of the error response.
errorStatus(auth) == IF auth.authError THEN auth.status ELSE 500

(* ----------------------- tools (src/server.ts) ------------------------ *)

MsgLists == "Here are your lists."
MsgListLoaded == "List loaded."
MsgListCreated == "List created."
MsgItemAdded == "Item added."
MsgItemUpdated == "Item updated."
MsgItemMoved == "Item moved."
MsgAlreadyYours == "That item is already yours."
MsgBookmarked == "Item bookmarked."
MsgSearch == "Search results."
MsgProfile == "Profile loaded."

\* The texts that pass z.string().url() and the list-type pattern.
WellFormedUrls == {"https://example.org/dune"}
SimpleTypes == {"general", "book", "film"}

validUuid(id) == id # BadUuid
validItemTitle(t) == Len(t) >= 1 /\ Len(t) <= MaxTitleLen
validListTitle(t) == Len(t) >= 1 /\ Len(t) <= MaxListTitleLen
validNote(n) == n \in {UNDEF, NULL} \/ Len(n) <= MaxNoteLen
validUrl(u) == u \in {UNDEF, NULL} \/ u \in WellFormedUrls
validType(t) == t = UNDEF \/ (Len(t) >= 1 /\ Len(t) <= MaxTypeLen /\ t \in SimpleTypes)
validQuery(q) == Len(q) >= 1 /\ Len(q) <= MaxQueryLen

\* The database a handler works on: the four tables.
Tables(U, L, I, B) == [users |-> U, lists |-> L, items |-> I, bookmarks |-> B]

\* The outcome of a tool call: the tables it leaves, whether it returned or
\* threw, its message, the viewer it resolved, its view and its effects id.
Fail(db, viewerId, message) ==
  [ok |-> FALSE, message |-> message, db |-> db, viewer |-> viewerId,
   view |-> NoView, effect |-> NoId]

Respond(db, viewerId, built, message, effect) ==
  IF built.ok
    THEN [ok |-> TRUE, message |-> message, db |-> db, viewer |-> viewerId,
          view |-> built.view, effect |-> effect]
    ELSE Fail(db, viewerId, built.error)

\* getViewer: the request's viewerCache is empty, so ensureUser runs.
getViewer(U, context, k) ==
  ensureUser(U,
    [authProviderId |-> context.authProviderId, handle |-> context.handle,
     displayName |-> IF context.displayName = UndefText THEN NullText
                     ELSE context.displayName,
     avatarUrl |-> IF context.avatarUrl = UNDEF THEN NULL ELSE context.avatarUrl],
    k)

\* Mutation: the ownership check lets every caller through.
requireListOwner_Off(listOwnerId, viewerId) == TRUE

\* Whether the check passes; when it does not, the handler throws ErrNotOwner.
requireListOwner(listOwnerId, viewerId) == listOwnerId = viewerId

\* Mutation: the own-item test never holds.
isOwnItem_Never(sourceOwnerId, viewerId) == FALSE

\* bookmark_item: if (source.owner_id === viewerId)
isOwnItem(sourceOwnerId, viewerId) == sourceOwnerId = viewerId

list_my_lists(db, context, k) ==
  LET eu == getViewer(db.users, context, k)
      d1 == [db EXCEPT !.users = eu.users]
  IN IF ~eu.ok THEN Fail(d1, NoId, eu.error)
     ELSE Respond(d1, eu.user.id,
            buildListView(d1.users, d1.lists, d1.items, eu.user.id, NoId),
            MsgLists, NoId)

get_list(db, context, k, list_id) ==
  LET eu == getViewer(db.users, context, k)
      d1 == [db EXCEPT !.users = eu.users]
  IN IF ~validUuid(list_id) THEN Fail(db, NoId, ErrValidation)
     ELSE IF ~eu.ok THEN Fail(d1, NoId, eu.error)
     ELSE Respond(d1, eu.user.id,
            buildListView(d1.users, d1.lists, d1.items, eu.user.id, list_id),
            MsgListLoaded, NoId)

create_list(db, context, k, title, typeArg) ==
  LET type == IF typeArg = UNDEF THEN "general" ELSE typeArg
      eu == getViewer(db.users, context, k)
      d1 == [db EXCEPT !.users = eu.users]
      made == createList(d1.lists, eu.user.id, title, type)
      d2 == [d1 EXCEPT !.lists = made.lists]
  IN IF ~(validListTitle(title) /\ validType(typeArg)) THEN Fail(db, NoId, ErrValidation)
     ELSE IF ~eu.ok THEN Fail(d1, NoId, eu.error)
     ELSE Respond(d2, eu.user.id,
            buildListView(d2.users, d2.lists, d2.items, eu.user.id, made.id),
            MsgListCreated, made.id)

add_item(db, context, k, list_id, title, note, url) ==
  LET eu == getViewer(db.users, context, k)
      d1 == [db EXCEPT !.users = eu.users]
      list == getListById(d1.lists, list_id)
      made == addItem(d1.items, list_id, title, note, url)
      d2 == [d1 EXCEPT !.items = made.items]
  IN IF ~(validUuid(list_id) /\ validItemTitle(title) /\ validNote(note) /\ validUrl(url))
       THEN Fail(db, NoId, ErrValidation)
     ELSE IF ~eu.ok THEN Fail(d1, NoId, eu.error)
     ELSE IF list.id = NoId THEN Fail(d1, eu.user.id, ErrListNotFound)
     ELSE IF ~requireListOwner(list.owner_id, eu.user.id)
       THEN Fail(d1, eu.user.id, ErrNotOwner)
     ELSE Respond(d2, eu.user.id,
            buildListView(d2.users, d2.lists, d2.items, eu.user.id, list_id),
            MsgItemAdded, made.id)

update_item(db, context, k, list_id, item_id, title, note, url) ==
  LET eu == getViewer(db.users, context, k)
      d1 == [db EXCEPT !.users = eu.users]
      list == getListById(d1.lists, list_id)
      d2 == [d1 EXCEPT !.items = updateItem(d1.items, item_id, list_id, title, note, url)]
  IN IF ~(/\ validUuid(list_id) /\ validUuid(item_id)
          /\ (title = UNDEF \/ validItemTitle(title))
          /\ validNote(note) /\ validUrl(url))
       THEN Fail(db, NoId, ErrValidation)
     ELSE IF ~eu.ok THEN Fail(d1, NoId, eu.error)
     ELSE IF list.id = NoId THEN Fail(d1, eu.user.id, ErrListNotFound)
     ELSE IF ~requireListOwner(list.owner_id, eu.user.id)
       THEN Fail(d1, eu.user.id, ErrNotOwner)
     ELSE Respond(d2, eu.user.id,
            buildListView(d2.users, d2.lists, d2.items, eu.user.id, list_id),
            MsgItemUpdated, NoId)

set_item_status(db, context, k, list_id, item_id, status) ==
  LET eu == getViewer(db.users, context, k)
      d1 == [db EXCEPT !.users = eu.users]
      list == getListById(d1.lists, list_id)
      d2 == [d1 EXCEPT !.items = setItemStatus(d1.items, item_id, list_id, status)]
  IN IF ~(validUuid(list_id) /\ validUuid(item_id) /\ status \in {"active", "done"})
       THEN Fail(db, NoId, ErrValidation)
     ELSE IF ~eu.ok THEN Fail(d1, NoId, eu.error)
     ELSE IF list.id = NoId THEN Fail(d1, eu.user.id, ErrListNotFound)
     ELSE IF ~requireListOwner(list.owner_id, eu.user.id)
       THEN Fail(d1, eu.user.id, ErrNotOwner)
     ELSE Respond(d2, eu.user.id,
            buildListView(d2.users, d2.lists, d2.items, eu.user.id, list_id),
            MsgItemMoved, item_id)

\* viewing_list_id is NoId when it is null or not supplied.
bookmark_item(db, context, k, source_item_id, viewing_list_id) ==
  LET eu == getViewer(db.users, context, k)
      d1 == [db EXCEPT !.users = eu.users]
      viewerId == eu.user.id
      found == findSourceItem(d1.users, d1.lists, d1.items, source_item_id)
      source == found[1]
      target == getOrCreateListByType(d1.lists, viewerId, source.list_type,
                                      source.list_title)
      made == addItem(d1.items, target.id, source.title, source.note, source.url)
      d2 == [d1 EXCEPT
               !.lists = target.lists,
               !.items = made.items,
               !.bookmarks = createBookmark(d1.bookmarks, viewerId, source.id,
                               source.list_id, source.owner_id, made.id)]
  IN IF ~(validUuid(source_item_id) /\ validUuid(viewing_list_id))
       THEN Fail(db, NoId, ErrValidation)
     ELSE IF ~eu.ok THEN Fail(d1, NoId, eu.error)
     ELSE IF Len(found) = 0 THEN Fail(d1, viewerId, ErrSourceNotFound)
     ELSE IF isOwnItem(source.owner_id, viewerId)
       THEN Respond(d1, viewerId,
              buildListView(d1.users, d1.lists, d1.items, viewerId,
                IF viewing_list_id # NoId THEN viewing_list_id ELSE source.list_id),
              MsgAlreadyYours, source_item_id)
     ELSE Respond(d2, viewerId,
            buildListView(d2.users, d2.lists, d2.items, viewerId,
              IF viewing_list_id # NoId THEN viewing_list_id ELSE target.id),
            MsgBookmarked, source_item_id)

search_users(db, context, k, queryText) ==
  LET eu == getViewer(db.users, context, k)
      d1 == [db EXCEPT !.users = eu.users]
  IN IF ~validQuery(queryText) THEN Fail(db, NoId, ErrValidation)
     ELSE IF ~eu.ok THEN Fail(d1, NoId, eu.error)
     ELSE Respond(d1, eu.user.id,
            buildSearchView(d1.users, d1.lists, d1.items, eu.user.id, queryText),
            MsgSearch, NoId)

get_user_profile(db, context, k, user_id) ==
  LET eu == getViewer(db.users, context, k)
      d1 == [db EXCEPT !.users = eu.users]
  IN IF ~validUuid(user_id) THEN Fail(db, NoId, ErrValidation)
     ELSE IF ~eu.ok THEN Fail(d1, NoId, eu.error)
     ELSE Respond(d1, eu.user.id,
            buildProfileView(d1.users, d1.lists, d1.items, eu.user.id, user_id),
            MsgProfile, NoId)

(* --------------------------- inputs ----------------------------------- *)

DevEnv == [AUTH_MODE |-> "dev", AUTH_JWKS_URL |-> FALSE]
OAuthEnv == [AUTH_MODE |-> "oauth", AUTH_JWKS_URL |-> TRUE]
OAuthNoKeysEnv == [AUTH_MODE |-> "oauth", AUTH_JWKS_URL |-> FALSE]

NoPayload ==
  [sub |-> NULL, preferred_username |-> UndefText, nickname |-> UndefText,
   email |-> UndefText, name |-> UndefText, picture |-> UNDEF]

\* A request in dev mode: the two headers; the authorization header is not read.
DevRequest(userId, userHandle) ==
  [userId |-> userId, userHandle |-> userHandle, authorization |-> "absent",
   verifies |-> FALSE, payload |-> NoPayload]

\* The requests that carry the tool calls: two users with handles of their own.
ToolRequests == {DevRequest("sub1", <<"a">>), DevRequest("sub2", <<"b">>)}

\* The requests of the sessions: the candidate handles collide, and one user
\* changes the spelling of the handle header.
DevRequests ==
  {DevRequest("sub1", <<"a">>), DevRequest("sub2", <<"a">>),
   DevRequest("sub2", <<"A">>)}

Payloads ==
  {[NoPayload EXCEPT !.sub = "sub1", !.preferred_username = <<"a">>],
   [NoPayload EXCEPT !.sub = "sub1", !.preferred_username = <<"a">>,
                     !.picture = "https://example.org/a.png"],
   [NoPayload EXCEPT !.sub = "sub2", !.email = <<"A", "@", "b">>,
                     !.name = <<"A", "l">>],
   [NoPayload EXCEPT !.preferred_username = <<"a">>]}

OAuthRequests ==
  [userId : {NULL}, userHandle : {<<>>}, authorization : {"bearer"},
   verifies : BOOLEAN, payload : Payloads]
  \cup [userId : {NULL}, userHandle : {<<>>}, authorization : {"absent", "basic"},
        verifies : {FALSE}, payload : {NoPayload}]

Requests(e) == IF e.AUTH_MODE # "oauth" THEN DevRequests ELSE OAuthRequests

\* Math.random() is called only when the candidate handle is taken.
Samples(U, context) ==
  IF handleTaken(U, context.authProviderId, context.handle) THEN RandSamples ELSE {0}

\* An id argument: a row's id or an id that names no row.
IdArgs(table) == 1..(Len(table) + 1)

ListInputs ==
  {[title |-> "Books", type |-> "book"], [title |-> "Misc", type |-> UNDEF]}

\* Arguments the input schema of create_list rejects.
BadListInputs ==
  {[title |-> "", type |-> "book"], [title |-> "Books", type |-> "b/k"]}

ItemInputs ==
  {[title |-> "Dune", note |-> "classic", url |-> "https://example.org/dune"]}

\* Arguments the input schema of add_item rejects.
BadItemInputs ==
  {[title |-> "", note |-> UNDEF, url |-> UNDEF],
   [title |-> "Dune", note |-> UNDEF, url |-> "dune"]}

ItemPatches ==
  {[title |-> UNDEF, note |-> UNDEF, url |-> UNDEF],
   [title |-> "Emma", note |-> NULL, url |-> UNDEF]}

StatusInputs == {"active", "done"}

\* Queries: a letter in upper case, the empty text (which the input schema
\* rejects) and the two characters that "like" reads as wildcards.
QueryInputs == {<<"A">>, <<>>, <<"_">>, <<"%">>}

\* The list a bookmark call says it is viewing: none, the oldest list, or a
\* list that does not exist.
ViewingArgs(L) == {NoId, 1, Len(L) + 1}

(* ------------------------------ state --------------------------------- *)

NoParams ==
  [authProviderId |-> NULL, handle |-> <<>>, displayName |-> UndefText,
   avatarUrl |-> UNDEF]

NoRequest ==
  [userId |-> NULL, userHandle |-> <<>>, authorization |-> "absent",
   verifies |-> FALSE, payload |-> NoPayload]

IdleSession ==
  [pc |-> "idle", request |-> NoRequest, context |-> NoContext, status |-> 0,
   safeHandle |-> <<>>,
   existing |-> NoUser, updates |-> {}, newId |-> NoId, viewerCache |-> NoUser]

Sessions == 1..NumSessions

DB == Tables(users, lists, items, bookmarks)

Init ==
  /\ env = DevEnv
  /\ users = <<>>
  /\ lists = <<>>
  /\ items = <<>>
  /\ bookmarks = <<>>
  /\ lastParams = [a \in AuthProviderIds |-> NoParams]
  /\ sess = [s \in Sessions |-> IdleSession]

\* The parameters getViewer hands to ensureUser for a context.
viewerParams(context) ==
  [authProviderId |-> context.authProviderId, handle |-> context.handle,
   displayName |-> IF context.displayName = UndefText THEN NullText
                   ELSE context.displayName,
   avatarUrl |-> IF context.avatarUrl = UNDEF THEN NULL ELSE context.avatarUrl]

\* The tables after a tool call; a table never grows past its bound.
Commit(res, context) ==
  /\ Len(res.db.lists) <= MaxLists
  /\ Len(res.db.items) <= MaxItems
  /\ users' = res.db.users
  /\ lists' = res.db.lists
  /\ items' = res.db.items
  /\ bookmarks' = res.db.bookmarks
  /\ lastParams' = IF res.viewer # NoId
                     THEN [lastParams EXCEPT ![context.authProviderId] =
                             viewerParams(context)]
                     ELSE lastParams
  /\ UNCHANGED <<env, sess>>

\* One tool call of a request that passes getAuthContext, run to its end.
ListMyLists ==
  \E req \in ToolRequests :
    LET auth == getAuthContext(env, req) IN
    /\ auth.ok
    /\ \E k \in Samples(users, auth.context) :
         Commit(list_my_lists(DB, auth.context, k), auth.context)

GetList ==
  \E req \in ToolRequests :
    LET auth == getAuthContext(env, req) IN
    /\ auth.ok
    /\ \E k \in Samples(users, auth.context), list_id \in IdArgs(lists) \cup {BadUuid} :
         Commit(get_list(DB, auth.context, k, list_id), auth.context)

CreateList ==
  \E req \in ToolRequests :
    LET auth == getAuthContext(env, req) IN
    /\ auth.ok
    /\ \E k \in Samples(users, auth.context), in \in ListInputs \cup BadListInputs :
         Commit(create_list(DB, auth.context, k, in.title, in.type), auth.context)

AddItem ==
  \E req \in ToolRequests :
    LET auth == getAuthContext(env, req) IN
    /\ auth.ok
    /\ \E k \in Samples(users, auth.context) :
         \/ \E list_id \in IdArgs(lists), in \in ItemInputs :
              Commit(add_item(DB, auth.context, k, list_id, in.title, in.note, in.url),
                     auth.context)
         \/ \E in \in BadItemInputs :
              Commit(add_item(DB, auth.context, k, 1, in.title, in.note, in.url),
                     auth.context)
         \/ Commit(add_item(DB, auth.context, k, BadUuid, "Dune", NULL, NULL),
                   auth.context)

UpdateItem ==
  \E req \in ToolRequests :
    LET auth == getAuthContext(env, req) IN
    /\ auth.ok
    /\ \E k \in Samples(users, auth.context) :
         \/ \E list_id \in IdArgs(lists), item_id \in IdArgs(items), in \in ItemPatches :
              Commit(update_item(DB, auth.context, k, list_id, item_id,
                                 in.title, in.note, in.url), auth.context)
         \/ Commit(update_item(DB, auth.context, k, 1, BadUuid, "", UNDEF, UNDEF),
                   auth.context)

SetItemStatus ==
  \E req \in ToolRequests :
    LET auth == getAuthContext(env, req) IN
    /\ auth.ok
    /\ \E k \in Samples(users, auth.context) :
         \/ \E list_id \in IdArgs(lists), item_id \in IdArgs(items),
               status \in StatusInputs :
              Commit(set_item_status(DB, auth.context, k, list_id, item_id, status),
                     auth.context)
         \/ Commit(set_item_status(DB, auth.context, k, 1, 1, "archived"),
                   auth.context)

BookmarkItem ==
  \E req \in ToolRequests :
    LET auth == getAuthContext(env, req) IN
    /\ auth.ok
    /\ \E k \in Samples(users, auth.context), source_item_id \in IdArgs(items),
          viewing_list_id \in ViewingArgs(lists) :
         Commit(bookmark_item(DB, auth.context, k, source_item_id, viewing_list_id),
                auth.context)

SearchUsers ==
  \E req \in ToolRequests :
    LET auth == getAuthContext(env, req) IN
    /\ auth.ok
    /\ \E k \in Samples(users, auth.context), q \in QueryInputs :
         Commit(search_users(DB, auth.context, k, q), auth.context)

GetUserProfile ==
  \E req \in ToolRequests :
    LET auth == getAuthContext(env, req) IN
    /\ auth.ok
    /\ \E k \in Samples(users, auth.context), user_id \in IdArgs(users) \cup {BadUuid} :
         Commit(get_user_profile(DB, auth.context, k, user_id), auth.context)

Next ==
  \/ ListMyLists
  \/ GetList
  \/ CreateList
  \/ AddItem
  \/ UpdateItem
  \/ SetItemStatus
  \/ BookmarkItem
  \/ SearchUsers
  \/ GetUserProfile

Spec == Init /\ [][Next]_vars

(* ---- sessions: the statements of getViewer / ensureUser, interleaved ---- *)

InitSessions ==
  /\ env \in {DevEnv, OAuthEnv, OAuthNoKeysEnv}
  /\ users = <<>>
  /\ lists = <<>>
  /\ items = <<>>
  /\ bookmarks = <<>>
  /\ lastParams = [a \in AuthProviderIds |-> NoParams]
  /\ sess = [s \in Sessions |-> IdleSession]

Free(s) == sess[s].pc \in {"idle", "rejected", "done", "failed"}

\* A request arrives: getAuthContext, then createMcpServer with an empty
\* viewerCache, or the error response of the catch.
Connect(s) ==
  /\ Free(s)
  /\ \E req \in Requests(env) :
       LET auth == getAuthContext(env, req) IN
       sess' = [sess EXCEPT ![s] =
                  IF auth.ok
                    THEN [IdleSession EXCEPT !.pc = "resolveHandle",
                                             !.context = auth.context]
                    ELSE [IdleSession EXCEPT !.pc = "rejected", !.request = req,
                                             !.status = errorStatus(auth)]]
  /\ UNCHANGED <<env, users, lists, items, bookmarks, lastParams>>

\* select auth_provider_id from users where handle = $1
ResolveHandle(s) ==
  /\ sess[s].pc = "resolveHandle"
  /\ \E k \in Samples(users, sess[s].context) :
       sess' = [sess EXCEPT ![s].pc = "getExisting",
                            ![s].safeHandle =
                               resolveHandle(users, sess[s].context.authProviderId,
                                             sess[s].context.handle, k)]
  /\ UNCHANGED <<env, users, lists, items, bookmarks, lastParams>>

\* select * from users where auth_provider_id = $1, and the choice of branch
GetExisting(s) ==
  /\ sess[s].pc = "getExisting"
  /\ LET params == viewerParams(sess[s].context)
         existing == getUserByAuthProviderId(users, params.authProviderId)
         updates == userUpdates(existing, params, sess[s].safeHandle)
     IN sess' = [sess EXCEPT
                   ![s].existing = existing,
                   ![s].updates = IF existing.id # NoId THEN updates ELSE {},
                   ![s].pc = IF existing.id = NoId THEN "insert"
                             ELSE IF updates # {} THEN "update" ELSE "reselect"]
  /\ UNCHANGED <<env, users, lists, items, bookmarks, lastParams>>

\* update users set ... where id = existing.id
UpdateExisting(s) ==
  /\ sess[s].pc = "update"
  /\ LET upd == updateUser(users, sess[s].existing.id, sess[s].updates,
                           viewerParams(sess[s].context), sess[s].safeHandle)
     IN /\ users' = upd.users
        /\ sess' = [sess EXCEPT ![s].pc = IF upd.ok THEN "reselect" ELSE "failed"]
  /\ UNCHANGED <<env, lists, items, bookmarks, lastParams>>

\* return getUserByAuthProviderId(params.authProviderId)
Reselect(s) ==
  /\ sess[s].pc = "reselect"
  /\ sess' = [sess EXCEPT
                ![s].pc = "done",
                ![s].viewerCache =
                   getUserByAuthProviderId(users, sess[s].context.authProviderId)]
  /\ lastParams' = [lastParams EXCEPT ![sess[s].context.authProviderId] =
                      viewerParams(sess[s].context)]
  /\ UNCHANGED <<env, users, lists, items, bookmarks>>

\* insert into users ... with a fresh uuid
InsertNew(s) ==
  /\ sess[s].pc = "insert"
  /\ LET id == Len(users) + 1
         ins == insertUser(users, id, viewerParams(sess[s].context), sess[s].safeHandle)
     IN /\ users' = ins.users
        /\ sess' = [sess EXCEPT ![s].pc = IF ins.ok THEN "getInserted" ELSE "failed",
                                ![s].newId = IF ins.ok THEN id ELSE NoId]
  /\ UNCHANGED <<env, lists, items, bookmarks, lastParams>>

\* return getUserById(id)
GetInserted(s) ==
  /\ sess[s].pc = "getInserted"
  /\ sess' = [sess EXCEPT ![s].pc = "done",
                          ![s].viewerCache = getUserById(users, sess[s].newId)]
  /\ lastParams' = [lastParams EXCEPT ![sess[s].context.authProviderId] =
                      viewerParams(sess[s].context)]
  /\ UNCHANGED <<env, users, lists, items, bookmarks>>

NextSessions ==
  \E s \in Sessions :
    \/ Connect(s)
    \/ ResolveHandle(s)
    \/ GetExisting(s)
    \/ UpdateExisting(s)
    \/ Reselect(s)
    \/ InsertNew(s)
    \/ GetInserted(s)

SpecSessions == InitSessions /\ [][NextSessions]_vars

(* ------------------------------ claims -------------------------------- *)

\* The contexts of the requests that carry tool calls.
ToolContexts ==
  {getAuthContext(env, req).context :
     req \in {q \in ToolRequests : getAuthContext(env, q).ok}}

SameListsItemsBookmarks(res) ==
  /\ res.db.lists = lists
  /\ res.db.items = items
  /\ res.db.bookmarks = bookmarks

Rejected(res) == ~res.ok /\ res.message = ErrNotOwner

\* The viewer of the call is resolved and is not the owner of the list.
NotOwner(res, list_id) ==
  /\ res.viewer # NoId
  /\ getListById(lists, list_id).id # NoId
  /\ getListById(lists, list_id).owner_id # res.viewer

\* C1: a call the input schema accepts, made by viewer V to add_item,
\* update_item or set_item_status on a list whose owner is not V, fails with
\* the permission error and leaves lists, items and bookmarks as they were.
C1_NonOwnerMutationFails ==
  \A context \in ToolContexts, list_id \in 1..Len(lists) :
    /\ \A in \in ItemInputs :
         LET res == add_item(DB, context, 0, list_id, in.title, in.note, in.url)
         IN NotOwner(res, list_id) => Rejected(res) /\ SameListsItemsBookmarks(res)
    /\ \A item_id \in IdArgs(items), in \in ItemPatches :
         LET res == update_item(DB, context, 0, list_id, item_id,
                                in.title, in.note, in.url)
         IN NotOwner(res, list_id) => Rejected(res) /\ SameListsItemsBookmarks(res)
    /\ \A item_id \in IdArgs(items), status \in StatusInputs :
         LET res == set_item_status(DB, context, 0, list_id, item_id, status)
         IN NotOwner(res, list_id) => Rejected(res) /\ SameListsItemsBookmarks(res)

\* C1 witness: a user who has been in contact is refused on an item that
\* exists in another user's list; the refused call leaves this very state.
C1_Witness ==
  \E context \in ToolContexts, n \in 1..Len(items) :
    LET res == set_item_status(DB, context, 0, items[n].list_id, items[n].id, "done")
    IN /\ lastParams[context.authProviderId] # NoParams
       /\ NotOwner(res, items[n].list_id)
       /\ Rejected(res)
       /\ res.db = DB

RowsOf(authProviderId) ==
  {i \in 1..Len(users) : users[i].auth_provider_id = authProviderId}

\* C2: the users table never holds two rows with the same auth_provider_id
\* nor two rows with the same handle, and an identity that a completed
\* ensureUser call has seen has exactly one row; this holds for every
\* interleaving of the statements of concurrent first-contact calls.
C2_OneRowPerIdentity ==
  /\ \A i, j \in 1..Len(users) :
       i # j => /\ users[i].auth_provider_id # users[j].auth_provider_id
                /\ users[i].handle # users[j].handle
  /\ \A a \in AuthProviderIds :
       lastParams[a] # NoParams => Cardinality(RowsOf(a)) = 1

\* C2 witness: two first-contact calls for one identity interleaved; one
\* completed, the other was refused by the unique constraint.
C2_Witness ==
  \E s, t \in Sessions :
    /\ s # t
    /\ sess[s].pc = "done"
    /\ sess[t].pc = "failed"
    /\ sess[s].context.authProviderId = sess[t].context.authProviderId
    /\ sess[t].existing.id = NoId
    /\ Cardinality(RowsOf(sess[s].context.authProviderId)) = 1

\* x is h followed by an underscore and four decimal digits.
IsSuffixed(x, h) ==
  /\ Len(x) = Len(h) + 5
  /\ SubSeq(x, 1, Len(h)) = h
  /\ x[Len(h) + 1] = "_"
  /\ \A n \in (Len(h) + 2)..(Len(h) + 5) : \E d \in 1..10 : x[n] = DigitChars[d]

HeldByAnother(authProviderId, h) ==
  \E i \in 1..Len(users) :
    users[i].handle = h /\ users[i].auth_provider_id # authProviderId

\* C3: when the candidate handle h belongs to a row of a different identity
\* at the time of the call, a successful ensureUser returns a record whose
\* handle is h, an underscore and four decimal digits; otherwise it returns
\* a record whose handle is h itself.
C3_HandleSuffix ==
  \A req \in Requests(env), k \in RandSamples :
    LET auth == getAuthContext(env, req)
        params == viewerParams(auth.context)
        res == ensureUser(users, params, k)
    IN (auth.ok /\ res.ok) =>
         IF HeldByAnother(params.authProviderId, params.handle)
           THEN IsSuffixed(res.user.handle, params.handle)
           ELSE res.user.handle = params.handle

\* C3 witness: a call met a taken candidate and stored a suffixed handle,
\* next to the row that holds the candidate.
C3_Witness ==
  \E i, j \in 1..Len(users) :
    /\ i # j
    /\ IsSuffixed(users[j].handle, users[i].handle)
    /\ \E s \in Sessions :
         /\ sess[s].pc = "done"
         /\ sess[s].viewerCache = users[j]
         /\ sess[s].context.handle = users[i].handle

\* C4 (as stated): for an identity with a row, a repeat of its previous
\* ensureUser call with the same parameters writes nothing and returns the
\* stored row.  The code draws a new random suffix on each call, so this is
\* violated once the identity's handle carries a suffix.
C4_RepeatAppliesNoWrite ==
  \A a \in AuthProviderIds, k \in RandSamples :
    (lastParams[a] # NoParams /\ RowsOf(a) # {}) =>
      LET res == ensureUser(users, lastParams[a], k)
      IN /\ res.ok
         /\ res.users = users
         /\ res.user = getUserByAuthProviderId(users, a)

\* The tables a bookmark call may find: the current ones, or the current
\* ones after one more create_list call.
BookmarkPreStates ==
  {DB} \cup {create_list(DB, context, 0, in.title, in.type).db :
               context \in ToolContexts, in \in ListInputs}

ListsOfType(L, ownerId, type) ==
  SelectSeq(L, LAMBDA l : l.owner_id = ownerId /\ l.type = type)

\* C5: a successful bookmark_item by viewer V on an item of a list owned by
\* another user U, of type T, appends to lists one list of V of type T if V
\* had none and nothing otherwise; appends to items exactly one active item
\* with the source's title, note and url in V's destination list (V's most
\* recently created list of type T when one existed); appends to bookmarks
\* exactly one row naming V, the source item, its list, U and the new item;
\* and changes no other row of these tables.
C5_BookmarkEffect ==
  \A pre \in BookmarkPreStates, context \in ToolContexts :
    \A source_item_id \in 1..Len(pre.items), viewing_list_id \in ViewingArgs(pre.lists) :
      LET res == bookmark_item(pre, context, 0, source_item_id, viewing_list_id)
          post == res.db
          V == res.viewer
          src == pre.items[source_item_id]
          srcList == getListById(pre.lists, src.list_id)
          before == ListsOfType(pre.lists, V, srcList.type)
          after == ListsOfType(post.lists, V, srcList.type)
          grown == IF Len(before) = 0 THEN 1 ELSE 0
          dest == IF Len(before) > 0 THEN before[Len(before)] ELSE after[Len(after)]
          newItem == post.items[Len(post.items)]
          newMark == post.bookmarks[Len(post.bookmarks)]
      IN (res.ok /\ srcList.owner_id # V) =>
           /\ res.message = MsgBookmarked
           /\ Len(after) = Len(before) + grown
           /\ Len(post.lists) = Len(pre.lists) + grown
           /\ SubSeq(post.lists, 1, Len(pre.lists)) = pre.lists
           /\ dest.owner_id = V
           /\ dest.type = srcList.type
           /\ grown = 1 => dest.title = srcList.title
           /\ Len(post.items) = Len(pre.items) + 1
           /\ SubSeq(post.items, 1, Len(pre.items)) = pre.items
           /\ newItem.list_id = dest.id
           /\ newItem.status = "active"
           /\ newItem.title = src.title
           /\ newItem.note = src.note
           /\ newItem.url = src.url
           /\ Len(post.bookmarks) = Len(pre.bookmarks) + 1
           /\ SubSeq(post.bookmarks, 1, Len(pre.bookmarks)) = pre.bookmarks
           /\ newMark.user_id = V
           /\ newMark.source_item_id = src.id
           /\ newMark.source_list_id = src.list_id
           /\ newMark.source_user_id = srcList.owner_id
           /\ newMark.created_item_id = newItem.id

\* C5 witness: a bookmark has been taken; its row links the viewer, the
\* source item of another user and the active copy in the viewer's list of
\* the source list's type.
C5_Witness ==
  \E n \in 1..Len(bookmarks) :
    LET b == bookmarks[n]
        copy == items[b.created_item_id]
        src == items[b.source_item_id]
        dest == getListById(lists, copy.list_id)
    IN /\ b.user_id # b.source_user_id
       /\ getListById(lists, src.list_id).owner_id = b.source_user_id
       /\ dest.owner_id = b.user_id
       /\ dest.type = getListById(lists, b.source_list_id).type
       /\ copy.status = "active"
       /\ copy.title = src.title

\* The viewer of the call is resolved and owns the list of the source item.
OwnItem(res, source_item_id) ==
  /\ res.viewer # NoId
  /\ getListById(lists, items[source_item_id].list_id).owner_id = res.viewer

\* C6 (as stated): bookmark_item by viewer V on an item whose list V owns
\* leaves lists, items and bookmarks unchanged and returns the message that
\* the item is already the viewer's own.
C6_OwnItemAlwaysAnswered ==
  \A context \in ToolContexts, source_item_id \in 1..Len(items) :
    \A viewing_list_id \in ViewingArgs(lists) :
      LET res == bookmark_item(DB, context, 0, source_item_id, viewing_list_id)
      IN OwnItem(res, source_item_id) =>
           /\ SameListsItemsBookmarks(res)
           /\ res.ok
           /\ res.message = MsgAlreadyYours

\* C6 (amended): bookmark_item by viewer V on an item whose list V owns
\* leaves lists, items and bookmarks unchanged; it returns the message that
\* the item is already the viewer's own when viewing_list_id is absent or
\* names an existing list, and fails with "List not found." when
\* viewing_list_id names no list.
C6_OwnItemNoOp ==
  \A context \in ToolContexts, source_item_id \in 1..Len(items) :
    \A viewing_list_id \in ViewingArgs(lists) :
      LET res == bookmark_item(DB, context, 0, source_item_id, viewing_list_id)
      IN OwnItem(res, source_item_id) =>
           /\ SameListsItemsBookmarks(res)
           /\ IF viewing_list_id = NoId \/ viewing_list_id \in 1..Len(lists)
                THEN res.ok /\ res.message = MsgAlreadyYours
                ELSE ~res.ok /\ res.message = ErrListNotFound

\* C6 witness: an owner who has been in contact bookmarks an own item while
\* viewing no list, and is answered without a change to this state.
C6_Witness ==
  \E context \in ToolContexts, source_item_id \in 1..Len(items) :
    LET res == bookmark_item(DB, context, 0, source_item_id, NoId)
    IN /\ lastParams[context.authProviderId] # NoParams
       /\ OwnItem(res, source_item_id)
       /\ res.message = MsgAlreadyYours
       /\ res.db = DB

\* The outcomes, at the current tables, of the calls to every tool other
\* than bookmark_item, those the input schemas reject included.
OtherToolResults(context) ==
  {list_my_lists(DB, context, 0)}
  \cup {get_list(DB, context, 0, list_id) : list_id \in IdArgs(lists) \cup {BadUuid}}
  \cup {create_list(DB, context, 0, in.title, in.type) :
          in \in ListInputs \cup BadListInputs}
  \cup {add_item(DB, context, 0, list_id, in.title, in.note, in.url) :
          list_id \in IdArgs(lists) \cup {BadUuid}, in \in ItemInputs \cup BadItemInputs}
  \cup {update_item(DB, context, 0, list_id, item_id, in.title, in.note, in.url) :
          list_id \in IdArgs(lists), item_id \in IdArgs(items) \cup {BadUuid},
          in \in ItemPatches}
  \cup {set_item_status(DB, context, 0, list_id, item_id, status) :
          list_id \in IdArgs(lists), item_id \in IdArgs(items),
          status \in StatusInputs \cup {"archived"}}
  \cup {search_users(DB, context, 0, q) : q \in QueryInputs}
  \cup {get_user_profile(DB, context, 0, user_id) :
          user_id \in IdArgs(users) \cup {BadUuid}}

\* C7 (as stated): a call to a tool other than bookmark_item that ends in
\* failure leaves users, lists, items and bookmarks as they were, also when
\* it is the caller's first contact.
C7_FailureChangesNothing ==
  \A context \in ToolContexts : \A res \in OtherToolResults(context) :
    ~res.ok => res.db = DB

\* The users table differs at most in the row of the calling identity.
OnlyCallerRow(U2, context) ==
  /\ Len(U2) \in {Len(users), Len(users) + 1}
  /\ \A n \in 1..Len(users) :
       /\ U2[n].id = users[n].id
       /\ U2[n].auth_provider_id = users[n].auth_provider_id
       /\ users[n].auth_provider_id # context.authProviderId => U2[n] = users[n]
  /\ \A n \in (Len(users) + 1)..Len(U2) :
       U2[n].auth_provider_id = context.authProviderId

\* C7 (amended): a call to a tool other than bookmark_item that ends in
\* failure leaves lists, items and bookmarks as they were and changes users
\* at most in the caller's own row, which getViewer inserts on first contact
\* or refreshes; a call the input schema rejects changes no table.
C7_FailureKeepsListsItemsBookmarks ==
  \A context \in ToolContexts : \A res \in OtherToolResults(context) :
    ~res.ok =>
      /\ SameListsItemsBookmarks(res)
      /\ OnlyCallerRow(res.db.users, context)
      /\ res.message = ErrValidation => res.db = DB

\* C7 witness: with lists and items present, a first-contact caller's call
\* fails for lack of permission and yet leaves the caller's users row.
C7_Witness ==
  \E context \in ToolContexts, list_id \in 1..Len(lists) :
    LET res == add_item(DB, context, 0, list_id, "Dune", NULL, NULL)
    IN /\ Len(items) > 0
       /\ getUserByAuthProviderId(users, context.authProviderId).id = NoId
       /\ Rejected(res)
       /\ SameListsItemsBookmarks(res)
       /\ getUserByAuthProviderId(res.db.users, context.authProviderId).id # NoId

\* The credential problems of a request in oauth mode.
NoBearerToken(req) == req.authorization # "bearer"

TokenFailsVerification(req) == req.authorization = "bearer" /\ ~req.verifies

TokenWithoutSubject(req) ==
  req.authorization = "bearer" /\ req.verifies /\ req.payload.sub = NULL

\* C8 (as stated): in oauth mode a request without a bearer token is answered
\* with 401; with the key set configured, a token that fails verification
\* and a verified token without a subject are answered with 401; a request
\* that carries a token while the key set is not configured is answered with
\* 500; no tool handler runs for any of them.  The code answers a token that
\* fails verification with 500.
C8_CredentialProblemsAnswered401 ==
  \A s \in Sessions :
    (env.AUTH_MODE = "oauth" /\ sess[s].pc = "rejected") =>
      LET req == sess[s].request
      IN /\ sess[s].viewerCache = NoUser
         /\ NoBearerToken(req) => sess[s].status = 401
         /\ (~NoBearerToken(req) /\ ~env.AUTH_JWKS_URL) => sess[s].status = 500
         /\ (env.AUTH_JWKS_URL /\ TokenWithoutSubject(req)) => sess[s].status = 401
         /\ (env.AUTH_JWKS_URL /\ TokenFailsVerification(req)) => sess[s].status = 401

\* C9: for every owner and every valid title and type, getListsByOwner after
\* createList is the owner's previous summaries preceded by exactly one new
\* entry, which has the returned id, the given title and type, visibility
\* "public" and both counts 0.
C9_CreateListThenSummaries ==
  \A ownerId \in 1..Len(users), in \in ListInputs :
    LET type == IF in.type = UNDEF THEN "general" ELSE in.type
        made == createList(lists, ownerId, in.title, type)
        before == getListsByOwner(users, lists, items, ownerId)
        after == getListsByOwner(users, made.lists, items, ownerId)
    IN /\ Len(after) = Len(before) + 1
       /\ SubSeq(after, 2, Len(after)) = before
       /\ after[1].id = made.id
       /\ \A n \in 1..Len(before) : before[n].id # made.id
       /\ after[1].owner_id = ownerId
       /\ after[1].title = in.title
       /\ after[1].type = type
       /\ after[1].visibility = "public"
       /\ after[1].active_count = 0
       /\ after[1].done_count = 0

\* C9 witness: an owner has two lists, the older one with an item, and the
\* summaries show the newer one first with counts 0.
C9_Witness ==
  \E ownerId \in 1..Len(users) :
    LET mine == getListsByOwner(users, lists, items, ownerId)
    IN /\ Len(mine) = 2
       /\ mine[1].id > mine[2].id
       /\ mine[1].active_count + mine[1].done_count = 0
       /\ mine[2].active_count + mine[2].done_count > 0

\* C10: for every item, list and status s, applying setItemStatus twice
\* leaves every item's status, title, note, url and list, and every list's
\* active and done counts, as applying it once leaves them.
C10_SetItemStatusIdempotent ==
  \A itemId \in IdArgs(items), listId \in IdArgs(lists), status \in StatusInputs :
    LET once == setItemStatus(items, itemId, listId, status)
        twice == setItemStatus(once, itemId, listId, status)
    IN /\ Len(twice) = Len(once)
       /\ \A n \in 1..Len(once) :
            /\ twice[n].id = once[n].id
            /\ twice[n].status = once[n].status
            /\ twice[n].title = once[n].title
            /\ twice[n].note = once[n].note
            /\ twice[n].url = once[n].url
            /\ twice[n].list_id = once[n].list_id
       /\ \A l \in 1..Len(lists), s \in StatusInputs :
            countItems(twice, l, s) = countItems(once, l, s)
       /\ (itemId \in 1..Len(items) /\ items[itemId].list_id = listId) =>
            once[itemId].status = status

\* C10 witness: a set_item_status call has moved an item to done, next to
\* an item that is still active.
C10_Witness ==
  \E n, m \in 1..Len(items) :
    /\ items[n].status = "done"
    /\ items[m].status = "active"
    /\ items[n].list_id = items[m].list_id

\* Whether text t contains text q as a run of consecutive characters.
Contains(t, q) ==
  \E n \in 1..(Len(t) - Len(q) + 1) : SubSeq(t, n, n + Len(q) - 1) = q

\* Whether the lower-cased handle or display name of row u contains q.
MatchesQuery(u, q) ==
  \/ Contains(Lower(u.handle), Lower(q))
  \/ (u.display_name # NullText /\ Contains(Lower(u.display_name), Lower(q)))

\* C11 (as stated): a search with an empty query returns no results; a
\* search with a non-empty query q returns only users whose lower-cased
\* handle or display name contains lower-cased q, at most 20 of them, newest
\* account first, and includes a matching user whenever fewer than 20
\* matching users were created after it.  The code hands q to "like"
\* unescaped, so a q of "_" or "%" returns users that do not contain it.
C11_SearchReturnsMatches ==
  \A context \in ToolContexts, q \in QueryInputs :
    LET viewerId == getUserByAuthProviderId(users, context.authProviderId).id
        built == buildSearchView(users, lists, items, viewerId, q)
        found == built.view.searchResults[1]
    IN built.ok =>
         /\ q = <<>> => found = <<>>
         /\ Len(found) <= SearchLimit
         /\ \A n \in 1..Len(found) : MatchesQuery(getUserById(users, found[n].id), q)
         /\ \A n, m \in 1..Len(found) : n < m => found[n].id > found[m].id
         /\ \A u \in 1..Len(users) :
              (q # <<>> /\ MatchesQuery(users[u], q)
                 /\ Cardinality({v \in (u + 1)..Len(users) : MatchesQuery(users[v], q)})
                      < SearchLimit)
              => \E n \in 1..Len(found) : found[n].id = users[u].id

\* The ids of the lists of an owner, and the newest of them.
ListIdsOf(ownerId) == {lists[n].id : n \in {m \in 1..Len(lists) : lists[m].owner_id = ownerId}}

NewestListOf(ownerId) ==
  IF ListIdsOf(ownerId) = {} THEN NoId
  ELSE CHOOSE id \in ListIdsOf(ownerId) : \A other \in ListIdsOf(ownerId) : other <= id

\* rows are the summaries of exactly the lists of ownerId, newest first.
IsSummariesOf(rows, ownerId) ==
  /\ {rows[n].id : n \in 1..Len(rows)} = ListIdsOf(ownerId)
  /\ Len(rows) = Cardinality(ListIdsOf(ownerId))
  /\ \A n, m \in 1..Len(rows) : n < m => rows[n].id > rows[m].id
  /\ \A n \in 1..Len(rows) :
       /\ rows[n].owner_id = ownerId
       /\ rows[n].title = getListById(lists, rows[n].id).title
       /\ rows[n].type = getListById(lists, rows[n].id).type

\* C12: for every viewer and listId, a view that buildListView returns has
\* the viewer's own list summaries as lists; with no listId it selects the
\* viewer's most recently created list, and is mode "mine" with no selected
\* list and empty item collections when the viewer has no list; with a
\* resolved list it is mode "profile", with the owner's profile and list
\* summaries, exactly when the list's owner is not the viewer, and mode
\* "mine" with profileUser and profileLists null otherwise.
C12_ListViewMode ==
  \A viewerId \in 1..Len(users), listIdArg \in {NoId} \cup IdArgs(lists) :
    LET built == buildListView(users, lists, items, viewerId, listIdArg)
        view == built.view
        resolved == IF listIdArg = NoId THEN NewestListOf(viewerId) ELSE listIdArg
        ownerId == getListById(lists, resolved).owner_id
    IN /\ built.ok <=> (resolved = NoId \/ resolved \in 1..Len(lists))
       /\ built.ok =>
            /\ IsSummariesOf(view.lists, viewerId)
            /\ view.viewer[1].id = viewerId
            /\ IF resolved = NoId
                 THEN /\ view.mode = "mine"
                      /\ view.selectedList = <<>>
                      /\ view.itemsActive = <<>>
                      /\ view.itemsDone = <<>>
                      /\ view.profileUser = <<>>
                      /\ view.profileLists = <<>>
                 ELSE /\ Len(view.selectedList) = 1
                      /\ view.selectedList[1].id = resolved
                      /\ IF ownerId # viewerId
                           THEN /\ view.mode = "profile"
                                /\ Len(view.profileUser) = 1
                                /\ view.profileUser[1].id = ownerId
                                /\ view.profileUser[1].handle
                                     = getUserById(users, ownerId).handle
                                /\ Len(view.profileLists) = 1
                                /\ IsSummariesOf(view.profileLists[1], ownerId)
                           ELSE /\ view.mode = "mine"
                                /\ view.profileUser = <<>>
                                /\ view.profileLists = <<>>

\* C12 witness: a viewer with a list of their own is shown another user's
\* list, which holds an item, in mode "profile".
C12_Witness ==
  \E viewerId \in 1..Len(users), listId \in 1..Len(lists) :
    LET built == buildListView(users, lists, items, viewerId, listId)
    IN /\ built.ok
       /\ built.view.mode = "profile"
       /\ Len(built.view.lists) = 1
       /\ Len(built.view.itemsActive) + Len(built.view.itemsDone) > 0
       /\ lastParams[users[viewerId].auth_provider_id] # NoParams

\* The outcomes, at the current tables, of the bookmark_item calls.
BookmarkResults(context) ==
  {bookmark_item(DB, context, 0, source_item_id, viewing_list_id) :
     source_item_id \in IdArgs(items), viewing_list_id \in ViewingArgs(lists)}

\* C13 (as stated): in every view a tool returns, mode is "profile" only if
\* profileUser is a user other than the viewer; so get_user_profile with the
\* viewer's own id never returns mode "profile".  buildProfileView returns
\* mode "profile" with the viewer as profileUser when the viewer has no list.
C13_ProfileModeIsAnotherUser ==
  \A context \in ToolContexts :
    \A res \in OtherToolResults(context) \cup BookmarkResults(context) :
      (res.ok /\ res.view.mode = "profile") =>
        /\ Len(res.view.profileUser) = 1
        /\ res.view.profileUser[1].id # res.viewer

\* item_id names an item of the list list_id.
ItemInList(item_id, list_id) ==
  item_id \in 1..Len(items) /\ items[item_id].list_id = list_id

\* C14 (as stated): update_item and set_item_status with an item_id that does
\* not exist, or that is not in the list list_id, end in failure and not in
\* "Item updated." / "Item moved."; and every call naming a list_id,
\* source_item_id or user_id that does not exist ends in failure.  The two
\* handlers never look the item up: the update matches no row and the call
\* answers with success.
C14_UnknownIdsFail ==
  \A context \in ToolContexts :
    /\ \A list_id \in IdArgs(lists), item_id \in IdArgs(items) :
         ~ItemInList(item_id, list_id) =>
           /\ \A in \in ItemPatches :
                ~update_item(DB, context, 0, list_id, item_id,
                             in.title, in.note, in.url).ok
           /\ \A status \in StatusInputs :
                ~set_item_status(DB, context, 0, list_id, item_id, status).ok
    /\ ~get_list(DB, context, 0, Len(lists) + 1).ok
    /\ \A in \in ItemInputs :
         ~add_item(DB, context, 0, Len(lists) + 1, in.title, in.note, in.url).ok
    /\ \A viewing_list_id \in ViewingArgs(lists) :
         ~bookmark_item(DB, context, 0, Len(items) + 1, viewing_list_id).ok
    /\ LET eu == getViewer(users, context, 0)
       IN ~get_user_profile(DB, context, 0, Len(eu.users) + 1).ok

\* Every combination of a title, a note and a url that is not supplied,
\* null (note and url only) or a value.
PatchFields ==
  [title : {UNDEF, "Emma"}, note : {UNDEF, NULL, "reread"},
   url : {UNDEF, NULL, "https://example.org/dune"}]

\* The owner of the list of the item in row n.
ItemOwner(n) == getListById(lists, items[n].list_id).owner_id

\* C15: updateItem writes the supplied fields, and nothing else, of the one
\* item with id item_id in list list_id; it leaves that item's status and
\* list and every other item as they were; it writes nothing when no field
\* is supplied or when the item is not in list_id.  Hence no tool call,
\* whatever list_id and item_id it pairs, changes the title, note, url or
\* status of an item unless the caller owns the item's list.
C15_UpdateItemFrame ==
  /\ \A itemId \in IdArgs(items), listId \in IdArgs(lists), in \in PatchFields :
       LET I2 == updateItem(items, itemId, listId, in.title, in.note, in.url)
       IN /\ Len(I2) = Len(items)
          /\ \A n \in 1..Len(items) :
               IF n = itemId /\ ItemInList(itemId, listId)
                 THEN /\ I2[n].id = items[n].id
                      /\ I2[n].status = items[n].status
                      /\ I2[n].list_id = items[n].list_id
                      /\ I2[n].title = IF in.title = UNDEF THEN items[n].title ELSE in.title
                      /\ I2[n].note = IF in.note = UNDEF THEN items[n].note ELSE in.note
                      /\ I2[n].url = IF in.url = UNDEF THEN items[n].url ELSE in.url
                 ELSE I2[n] = items[n]
  /\ \A context \in ToolContexts :
       \A res \in OtherToolResults(context) \cup BookmarkResults(context)
                  \cup {update_item(DB, context, 0, list_id, item_id,
                                    in.title, in.note, in.url) :
                          list_id \in IdArgs(lists), item_id \in IdArgs(items),
                          in \in PatchFields} :
         \A n \in 1..Len(items) :
           res.db.items[n] # items[n] => res.viewer = ItemOwner(n)

\* C15 witness: an owner has rewritten an item's title and cleared its note
\* while another user, who has been in contact, owns a list of their own.
C15_Witness ==
  \E n \in 1..Len(items), l \in 1..Len(lists) :
    /\ items[n].title = "Emma"
    /\ items[n].note = NULL
    /\ items[n].url # NULL
    /\ lists[l].owner_id # ItemOwner(n)
    /\ lastParams[getUserById(users, lists[l].owner_id).auth_provider_id] # NoParams

\* C16: no tool call removes a row of users, lists, items or bookmarks,
\* changes the owner or type of a list, changes the list of an item, or
\* modifies a bookmarks row; so over any sequence of calls the data only
\* grows.
C16_DataOnlyGrows ==
  \A context \in ToolContexts :
    \A res \in OtherToolResults(context) \cup BookmarkResults(context) :
      /\ Len(res.db.users) >= Len(users)
      /\ \A n \in 1..Len(users) :
           /\ res.db.users[n].id = users[n].id
           /\ res.db.users[n].auth_provider_id = users[n].auth_provider_id
      /\ Len(res.db.lists) >= Len(lists)
      /\ \A n \in 1..Len(lists) :
           /\ res.db.lists[n].id = lists[n].id
           /\ res.db.lists[n].owner_id = lists[n].owner_id
           /\ res.db.lists[n].type = lists[n].type
      /\ Len(res.db.items) >= Len(items)
      /\ \A n \in 1..Len(items) :
           /\ res.db.items[n].id = items[n].id
           /\ res.db.items[n].list_id = items[n].list_id
      /\ Len(res.db.bookmarks) >= Len(bookmarks)
      /\ \A n \in 1..Len(bookmarks) : res.db.bookmarks[n] = bookmarks[n]

\* C16 witness: all four tables hold rows, an item has been moved to done
\* since it was copied, and a further bookmark of the same source by the
\* same viewer is possible.
C16_Witness ==
  \E n \in 1..Len(bookmarks), context \in ToolContexts :
    LET b == bookmarks[n]
        res == bookmark_item(DB, context, 0, b.source_item_id, NoId)
    IN /\ items[b.created_item_id].status = "done"
       /\ items[b.source_item_id].status = "active"
       /\ res.viewer = b.user_id
       /\ res.ok
       /\ Len(res.db.bookmarks) = Len(bookmarks) + 1

(* ---- calls: the database statements of concurrent tool calls ---------- *)

\* The two callers: the owner of the shared list and a second user.
OwnerContext == getAuthContext(DevEnv, DevRequest("sub1", <<"a">>)).context

GuestContext == getAuthContext(DevEnv, DevRequest("sub2", <<"b">>)).context

\* Tables the program reaches by tool calls: the owner has a list of type
\* "book" with two items and the guest is registered without a list.
SeedShared ==
  LET d0 == Tables(<<>>, <<>>, <<>>, <<>>)
      d1 == create_list(d0, OwnerContext, 0, "Books", "book").db
      d2 == add_item(d1, OwnerContext, 0, 1, "Dune", "classic", NULL).db
      d3 == add_item(d2, OwnerContext, 0, 1, "Emma", NULL, NULL).db
  IN list_my_lists(d3, GuestContext, 0).db

\* The same, after the guest has created a list of type "book".
SeedGuestList == create_list(SeedShared, GuestContext, 0, "Shelf", "book").db

NoCall ==
  [tool |-> "", context |-> NoContext, list_id |-> NoId, item_id |-> NoId,
   status |-> "", source_item_id |-> NoId, viewing_list_id |-> NoId]

\* The tool calls of the sessions.
Calls ==
  {[NoCall EXCEPT !.tool = "bookmark_item", !.context = c, !.source_item_id = i] :
     c \in {GuestContext}, i \in {1, 2}}
  \cup {[NoCall EXCEPT !.tool = "bookmark_item", !.context = OwnerContext,
                       !.source_item_id = 1]}
  \cup {[NoCall EXCEPT !.tool = "get_list", !.context = c, !.list_id = 1] :
          c \in {OwnerContext, GuestContext}}
  \cup {[NoCall EXCEPT !.tool = "set_item_status", !.context = OwnerContext,
                       !.list_id = 1, !.item_id = 1, !.status = st] :
          st \in StatusInputs}
  \cup {[NoCall EXCEPT !.tool = "add_item", !.context = c, !.list_id = 1] :
          c \in {OwnerContext, GuestContext}}

\* A call in progress: its position, what its statements returned so far,
\* and, once it has answered, its message and view.
IdleCall ==
  [pc |-> "idle", call |-> NoCall, viewer |-> NoId, source |-> <<>>,
   target |-> NoId, created |-> FALSE, newItem |-> NoId, listId |-> NoId,
   message |-> "", view |-> NoView, listItems |-> {}]

InitCalls ==
  /\ env = DevEnv
  /\ \E seed \in {SeedShared, SeedGuestList} :
       /\ users = seed.users
       /\ lists = seed.lists
       /\ items = seed.items
       /\ bookmarks = seed.bookmarks
  /\ lastParams = [a \in AuthProviderIds |-> NoParams]
  /\ sess = [s \in Sessions |-> IdleCall]

\* The call throws: the handler ends with the error message.
Throw(s, message) ==
  sess' = [sess EXCEPT ![s].pc = "failed", ![s].message = message]

\* The handler goes on to buildListView for listId with its success message.
ToView(c, listId, message) ==
  [c EXCEPT !.pc = "viewViewer", !.listId = listId, !.message = message]

\* A request arrives with one tool call.
StartCall(s) ==
  /\ sess[s].pc = "idle"
  /\ \E call \in Calls :
       sess' = [sess EXCEPT ![s] = [IdleCall EXCEPT !.pc = "getViewer", !.call = call]]
  /\ UNCHANGED <<env, users, lists, items, bookmarks, lastParams>>

\* const viewer = await getViewer()
CallGetViewer(s) ==
  /\ sess[s].pc = "getViewer"
  /\ LET eu == getViewer(users, sess[s].call.context, 0)
         tool == sess[s].call.tool
     IN /\ users' = eu.users
        /\ IF ~eu.ok THEN Throw(s, eu.error)
           ELSE sess' = [sess EXCEPT ![s] =
                  IF tool = "get_list"
                    THEN ToView([@ EXCEPT !.viewer = eu.user.id],
                                sess[s].call.list_id, MsgListLoaded)
                    ELSE [@ EXCEPT !.viewer = eu.user.id,
                                   !.pc = IF tool = "bookmark_item" THEN "findSource"
                                          ELSE "getList"]]
  /\ UNCHANGED <<env, lists, items, bookmarks, lastParams>>

\* add_item, set_item_status: getListById, the not-found test and
\* requireListOwner.
CallGetList(s) ==
  /\ sess[s].pc = "getList"
  /\ LET list == getListById(lists, sess[s].call.list_id)
     IN IF list.id = NoId THEN Throw(s, ErrListNotFound)
        ELSE IF ~requireListOwner(list.owner_id, sess[s].viewer)
          THEN Throw(s, ErrNotOwner)
        ELSE sess' = [sess EXCEPT ![s].pc = "write"]
  /\ UNCHANGED <<env, users, lists, items, bookmarks, lastParams>>

\* add_item: addItem(...); set_item_status: setItemStatus(...)
CallWrite(s) ==
  /\ sess[s].pc = "write"
  /\ LET call == sess[s].call
         made == addItem(items, call.list_id, "Dune", NULL, NULL)
     IN IF call.tool = "add_item"
          THEN /\ items' = made.items
               /\ sess' = [sess EXCEPT ![s] =
                    ToView([@ EXCEPT !.newItem = made.id], call.list_id, MsgItemAdded)]
          ELSE /\ items' = setItemStatus(items, call.item_id, call.list_id, call.status)
               /\ sess' = [sess EXCEPT ![s] = ToView(@, call.list_id, MsgItemMoved)]
  /\ UNCHANGED <<env, users, lists, bookmarks, lastParams>>

\* bookmark_item: findSourceItem, the not-found test and the own-item test.
FindSourceItem(s) ==
  /\ sess[s].pc = "findSource"
  /\ LET call == sess[s].call
         found == findSourceItem(users, lists, items, call.source_item_id)
     IN IF Len(found) = 0 THEN Throw(s, ErrSourceNotFound)
        ELSE sess' = [sess EXCEPT ![s] =
               IF isOwnItem(found[1].owner_id, sess[s].viewer)
                 THEN ToView([@ EXCEPT !.source = found],
                             IF call.viewing_list_id # NoId THEN call.viewing_list_id
                             ELSE found[1].list_id,
                             MsgAlreadyYours)
                 ELSE [@ EXCEPT !.source = found, !.pc = "selectList"]]
  /\ UNCHANGED <<env, users, lists, items, bookmarks, lastParams>>

\* getOrCreateListByType: select id from lists where owner_id = $1 and
\* type = $2 order by created_at desc limit 1
SelectListByType(s) ==
  /\ sess[s].pc = "selectList"
  /\ LET source == sess[s].source[1]
         rows == SelectSeq(lists, LAMBDA l : l.owner_id = sess[s].viewer
                                             /\ l.type = source.list_type)
     IN sess' = [sess EXCEPT ![s] =
          IF Len(rows) > 0
            THEN [@ EXCEPT !.target = newestListOfType(rows), !.pc = "addItem"]
            ELSE [@ EXCEPT !.pc = "createList"]]
  /\ UNCHANGED <<env, users, lists, items, bookmarks, lastParams>>

\* getOrCreateListByType: return createList(...)
CreateListByType(s) ==
  /\ sess[s].pc = "createList"
  /\ LET source == sess[s].source[1]
         made == createList(lists, sess[s].viewer, source.list_title, source.list_type)
     IN /\ lists' = made.lists
        /\ sess' = [sess EXCEPT ![s].target = made.id, ![s].created = TRUE,
                                ![s].pc = "addItem"]
  /\ UNCHANGED <<env, users, items, bookmarks, lastParams>>

\* bookmark_item: addItem({listId: targetListId, ...source})
AddBookmarkedItem(s) ==
  /\ sess[s].pc = "addItem"
  /\ LET source == sess[s].source[1]
         made == addItem(items, sess[s].target, source.title, source.note, source.url)
     IN /\ items' = made.items
        /\ sess' = [sess EXCEPT ![s].newItem = made.id, ![s].pc = "createBookmark"]
  /\ UNCHANGED <<env, users, lists, bookmarks, lastParams>>

\* bookmark_item: createBookmark(...), then the view of viewing_list_id or
\* of the target list.
CreateBookmark(s) ==
  /\ sess[s].pc = "createBookmark"
  /\ LET source == sess[s].source[1]
         call == sess[s].call
     IN /\ bookmarks' = createBookmark(bookmarks, sess[s].viewer, source.id,
                                       source.list_id, source.owner_id, sess[s].newItem)
        /\ sess' = [sess EXCEPT ![s] =
             ToView(@, IF call.viewing_list_id # NoId THEN call.viewing_list_id
                       ELSE sess[s].target,
                    MsgBookmarked)]
  /\ UNCHANGED <<env, users, lists, items, lastParams>>

\* The handler returns its view; listItems keeps the ids of the items that
\* the selected list holds at this moment.
Answer(c, view) ==
  [c EXCEPT !.pc = "done", !.view = view,
            !.listItems = IF view.selectedList = <<>> THEN {}
                          ELSE {items[n].id : n \in {m \in 1..Len(items) :
                                   items[m].list_id = view.selectedList[1].id}}]

\* buildListView: buildViewerSummary(viewerId)
ViewViewer(s) ==
  /\ sess[s].pc = "viewViewer"
  /\ LET viewerRow == getUserById(users, sess[s].viewer)
     IN IF viewerRow.id = NoId THEN Throw(s, ErrViewerNotFound)
        ELSE sess' = [sess EXCEPT ![s].pc = "viewLists",
                                  ![s].view = [NoView EXCEPT
                                     !.viewer = <<publicUser(viewerRow)>>]]
  /\ UNCHANGED <<env, users, lists, items, bookmarks, lastParams>>

\* buildListView: getListsByOwner(viewerId) and the default of listId
ViewLists(s) ==
  /\ sess[s].pc = "viewLists"
  /\ LET mine == getListsByOwner(users, lists, items, sess[s].viewer)
         listId == IF sess[s].listId = NoId /\ Len(mine) > 0 THEN mine[1].id
                   ELSE sess[s].listId
         view == [sess[s].view EXCEPT !.lists = mine, !.mode = "mine"]
     IN sess' = [sess EXCEPT ![s] =
          IF listId = NoId THEN Answer(@, view)
          ELSE [@ EXCEPT !.pc = "viewSelected", !.listId = listId, !.view = view]]
  /\ UNCHANGED <<env, users, lists, items, bookmarks, lastParams>>

\* buildListView: getListSummaryById(listId)
ViewSelected(s) ==
  /\ sess[s].pc = "viewSelected"
  /\ LET selected == getListSummaryById(users, lists, items, sess[s].listId)
     IN IF Len(selected) = 0 THEN Throw(s, ErrListNotFound)
        ELSE sess' = [sess EXCEPT ![s].pc = "viewActive",
                                  ![s].view.selectedList = selected]
  /\ UNCHANGED <<env, users, lists, items, bookmarks, lastParams>>

\* buildListView: getItemsByList(listId, "active")
ViewItemsActive(s) ==
  /\ sess[s].pc = "viewActive"
  /\ sess' = [sess EXCEPT ![s].pc = "viewDone",
                          ![s].view.itemsActive =
                             getItemsByList(items, sess[s].listId, "active")]
  /\ UNCHANGED <<env, users, lists, items, bookmarks, lastParams>>

\* buildListView: getItemsByList(listId, "done"), and the answer in mode
\* "mine" when the viewer owns the selected list
ViewItemsDone(s) ==
  /\ sess[s].pc = "viewDone"
  /\ LET view == [sess[s].view EXCEPT
                    !.itemsDone = getItemsByList(items, sess[s].listId, "done")]
     IN sess' = [sess EXCEPT ![s] =
          IF view.selectedList[1].owner_id # sess[s].viewer
            THEN [@ EXCEPT !.pc = "viewProfileUser", !.view = view]
            ELSE Answer(@, view)]
  /\ UNCHANGED <<env, users, lists, items, bookmarks, lastParams>>

\* buildListView: getUserById(selected.owner_id)
ViewProfileUser(s) ==
  /\ sess[s].pc = "viewProfileUser"
  /\ LET selected == sess[s].view.selectedList[1]
         profileRecord == getUserById(users, selected.owner_id)
         profileUser ==
           IF profileRecord.id # NoId THEN publicUser(profileRecord)
           ELSE [id |-> selected.owner_id, handle |-> selected.owner_handle,
                 displayName |-> selected.owner_display_name, avatarUrl |-> NULL]
     IN sess' = [sess EXCEPT ![s].pc = "viewProfileLists",
                             ![s].view.profileUser = <<profileUser>>]
  /\ UNCHANGED <<env, users, lists, items, bookmarks, lastParams>>

\* buildListView: getListsByOwner(selected.owner_id), and the answer in mode
\* "profile"
ViewProfileLists(s) ==
  /\ sess[s].pc = "viewProfileLists"
  /\ LET ownerId == sess[s].view.selectedList[1].owner_id
         view == [sess[s].view EXCEPT
                    !.mode = "profile",
                    !.profileLists = <<getListsByOwner(users, lists, items, ownerId)>>]
     IN sess' = [sess EXCEPT ![s] = Answer(@, view)]
  /\ UNCHANGED <<env, users, lists, items, bookmarks, lastParams>>

NextCalls ==
  \E s \in Sessions :
    \/ StartCall(s)
    \/ CallGetViewer(s)
    \/ CallGetList(s)
    \/ CallWrite(s)
    \/ FindSourceItem(s)
    \/ SelectListByType(s)
    \/ CreateListByType(s)
    \/ AddBookmarkedItem(s)
    \/ CreateBookmark(s)
    \/ ViewViewer(s)
    \/ ViewLists(s)
    \/ ViewSelected(s)
    \/ ViewItemsActive(s)
    \/ ViewItemsDone(s)
    \/ ViewProfileUser(s)
    \/ ViewProfileLists(s)

SpecCalls == InitCalls /\ [][NextCalls]_vars

\* The sessions whose bookmark_item call by viewerId, for an item of another
\* user's list of the type, has answered "Item bookmarked.".
Bookmarked(viewerId, type) ==
  {s \in Sessions :
     /\ sess[s].pc = "done"
     /\ sess[s].call.tool = "bookmark_item"
     /\ sess[s].message = MsgBookmarked
     /\ sess[s].viewer = viewerId
     /\ sess[s].source[1].list_type = type
     /\ sess[s].source[1].owner_id # viewerId}

\* The viewer had no list of the type before the calls: each one the viewer
\* has now was created by one of the calls.
HadNoListOfType(viewerId, type) ==
  \A n \in 1..Len(lists) :
    (lists[n].owner_id = viewerId /\ lists[n].type = type) =>
      \E s \in Bookmarked(viewerId, type) :
        sess[s].created /\ sess[s].target = lists[n].id

\* C17 (as stated): when a viewer without a list of type T has issued two or
\* more bookmark_item calls for items of other users' lists of type T and
\* all calls have completed, the viewer has exactly one list of type T, and
\* it holds all the copied items, whatever the interleaving of the calls'
\* statements.  Two calls that both select before either inserts create a
\* list each.
C17_OneListForConcurrentBookmarks ==
  \A viewerId \in 1..Len(users), type \in SimpleTypes :
    (/\ \A s \in Sessions : sess[s].pc \in {"done", "failed"}
     /\ Cardinality(Bookmarked(viewerId, type)) >= 2
     /\ HadNoListOfType(viewerId, type)) =>
      /\ Len(ListsOfType(lists, viewerId, type)) = 1
      /\ \A s \in Bookmarked(viewerId, type) :
           items[sess[s].newItem].list_id = ListsOfType(lists, viewerId, type)[1].id

\* A view with a selected list is a snapshot of that list.
ConsistentView(c) ==
  LET view == c.view
      active == {view.itemsActive[n].id : n \in 1..Len(view.itemsActive)}
      done == {view.itemsDone[n].id : n \in 1..Len(view.itemsDone)}
  IN /\ active \cap done = {}
     /\ c.listItems \subseteq active \cup done
     /\ Len(view.itemsActive) = view.selectedList[1].active_count
     /\ Len(view.itemsDone) = view.selectedList[1].done_count

\* C18 (as stated): every view returned with a selected list has no item in
\* both itemsActive and itemsDone, has every item the list holds when the
\* call answers in one of them, and has as many active and done items as
\* selectedList counts, also when another session's add_item or
\* set_item_status on the list runs between the statements of the view
\* assembly.  The three reads are separate statements without a
\* transaction, so a write between them is seen by some and not by others.
C18_ViewIsSnapshot ==
  \A s \in Sessions :
    (sess[s].pc = "done" /\ sess[s].view.selectedList # <<>>) => ConsistentView(sess[s])

====
